---- MODULE Spec2Model ----
(***************************************************************************)
(* Model of openai_api_tester.py: the credential tester (test_single_model, *)
(* get_available_models, test_api_key), the "Test API Key" button handler   *)
(* with the session-held result set, and the result summary.                *)
(*                                                                          *)
(* Model identifiers and credentials are sequences of one-character         *)
(* strings, so that lower(), substring search, startswith() and the         *)
(* lexicographic sort are computed character by character.  Messages are    *)
(* strings built with \o exactly as the f-strings build them.               *)
(***************************************************************************)
EXTENDS Integers, Sequences, FiniteSets, TLC

\* ------------------------------------------------------------------ bounds
\* failing probes per session (every other probe completes)
MaxProbeFailures == 1
\* model descriptors in one "list models" reply
MaxListed == 2
\* direct calls of one function in a harness
MaxHarnessCalls == 2
\* entries of a result set handed to the summary harness
MaxSummaryModels == 6

\* ------------------------------------------------------- characters, str
\* The characters that occur, in code point order ('-' < '.' < digits <
\* upper case < lower case).
Alphabet ==
  << "-", ".", "0", "1", "2", "3", "4", "5", "6", "7", "8", "9",
     "A", "B", "C", "D", "E", "F", "G", "H", "I", "J", "K", "L", "M",
     "N", "O", "P", "Q", "R", "S", "T", "U", "V", "W", "X", "Y", "Z",
     "a", "b", "c", "d", "e", "f", "g", "h", "i", "j", "k", "l", "m",
     "n", "o", "p", "q", "r", "s", "t", "u", "v", "w", "x", "y", "z" >>

\* ord(c), up to the gaps between the ranges of characters
OrdOf ==
  [c \in {Alphabet[k] : k \in 1..Len(Alphabet)} |->
     CHOOSE k \in 1..Len(Alphabet) : Alphabet[k] = c]

Ord(c) == OrdOf[c]

\* str.lower() on one character, then on a string
LowerChar(c) == IF Ord(c) \in 13..38 THEN Alphabet[Ord(c) + 26] ELSE c

Lower(s) == [k \in 1..Len(s) |-> LowerChar(s[k])]

\* `sub in s`
Contains(s, sub) ==
  \E k \in 0..(Len(s) - Len(sub)) : SubSeq(s, k + 1, k + Len(sub)) = sub

\* s.startswith(prefix)
StartsWith(s, prefix) ==
  Len(s) >= Len(prefix) /\ SubSeq(s, 1, Len(prefix)) = prefix

\* Python's str `<`: the first differing character decides, a proper prefix
\* is smaller.
LexLess(a, b) ==
  LET n == IF Len(a) < Len(b) THEN Len(a) ELSE Len(b)
      differ == {k \in 1..n : a[k] # b[k]}
  IN IF differ = {} THEN Len(a) < Len(b)
     ELSE LET first == CHOOSE k \in differ : \A j \in differ : k <= j
          IN Ord(a[first]) < Ord(b[first])

Range(s) == {s[k] : k \in 1..Len(s)}

\* ------------------------------------------------------ model identifiers
gpt_4o == << "g", "p", "t", "-", "4", "o" >>
gpt_4o_mini == << "g", "p", "t", "-", "4", "o", "-", "m", "i", "n", "i" >>
gpt_4 == << "g", "p", "t", "-", "4" >>
gpt_4_turbo == << "g", "p", "t", "-", "4", "-", "t", "u", "r", "b", "o" >>
gpt_4_32k == << "g", "p", "t", "-", "4", "-", "3", "2", "k" >>
gpt_35_turbo ==
  << "g", "p", "t", "-", "3", ".", "5", "-", "t", "u", "r", "b", "o" >>
gpt_35_turbo_16k ==
  << "g", "p", "t", "-", "3", ".", "5", "-", "t", "u", "r", "b", "o",
     "-", "1", "6", "k" >>

default_models ==
  << gpt_4o, gpt_4o_mini, gpt_4, gpt_4_turbo, gpt_4_32k, gpt_35_turbo,
     gpt_35_turbo_16k >>

\* Identifiers a provider may enumerate besides the defaults: a new family
\* member, a marker in another letter case, and one without a marker.
gpt_41 == << "g", "p", "t", "-", "4", ".", "1" >>
GPT_4_Turbo == << "G", "P", "T", "-", "4", "-", "T", "u", "r", "b", "o" >>
whisper_1 == << "w", "h", "i", "s", "p", "e", "r", "-", "1" >>

ListedPool == {gpt_4o, gpt_41, GPT_4_Turbo, whisper_1}

\* The family markers of get_available_models and the 'gpt' pre-check
variants == << gpt_4, gpt_35_turbo >>

gpt == << "g", "p", "t" >>

\* Credentials the user may type; the button handler asks for the prefix
sk_prefix == << "s", "k", "-" >>

Credentials ==
  { << >>,
    << "b", "a", "d", "k", "e", "y" >>,
    << "S", "K", "-", "a" >>,
    << "s", "k", "-", "a" >> }

\* ------------------------------------------------------ provider replies
\* A reply to one provider call: kind "ok", or the class of the exception
\* raised, with str(e) in detail; data is the models.list() payload.
ExceptionKinds ==
  { "AuthenticationError", "PermissionDeniedError", "NotFoundError",
    "RateLimitError", "APIError", "Exception" }

\* isinstance(e, cls) for an exception of class kind: the four status
\* errors derive from APIError, and everything derives from Exception.
IsInstance(kind, cls) ==
  \/ kind = cls
  \/ cls = "Exception" /\ kind \in ExceptionKinds
  \/ /\ cls = "APIError"
     /\ kind \in { "AuthenticationError", "PermissionDeniedError",
                   "NotFoundError", "RateLimitError" }

\* call names the provider call answered
Reply(call, kind, detail, data) ==
  [call |-> call, kind |-> kind, detail |-> detail, data |-> data]

NoReply == Reply("none", "none", "", << >>)

\* str(e) of the failures considered
ConstructDetails == {"Connection error.", "proxy refused"}

ProbeDetails == {"Connection error."}

HarnessDetails == {"Connection error.", "Rate limit exceeded", ""}

ConstructReplies ==
  {Reply("OpenAI", "ok", "", << >>)} \cup
  {Reply("OpenAI", k, d, << >>) : k \in ExceptionKinds, d \in ConstructDetails}

\* The payloads of "list models": up to MaxListed distinct identifiers
Listings ==
  {s \in UNION {[1..n -> ListedPool] : n \in 0..MaxListed} :
     \A a, b \in 1..Len(s) : a # b => s[a] # s[b]}

ListReplies ==
  {Reply("models.list", "ok", "", s) : s \in Listings} \cup
  {Reply("models.list", k, "Connection error.", << >>) : k \in ExceptionKinds}

FailureReplies(details) ==
  {Reply("create", k, d, << >>) : k \in ExceptionKinds, d \in details}

ProbeReplies == {Reply("create", "ok", "", << >>)} \cup FailureReplies(ProbeDetails)

HarnessReplies ==
  {Reply("create", "ok", "", << >>)} \cup FailureReplies(HarnessDetails)

\* ------------------------------------------------------ test_single_model
Outcome(success, message) == << success, message >>

\* The except chain with the provider-error clause moved to the front
TestSingleModelApiErrorFirst(model, reply) ==
  IF reply.kind = "ok" THEN Outcome(TRUE, "Successfully connected")
  ELSE IF IsInstance(reply.kind, "APIError")
    THEN Outcome(FALSE, "API error: " \o reply.detail)
  ELSE IF IsInstance(reply.kind, "AuthenticationError")
    THEN Outcome(FALSE, "Authentication failed - Invalid API key")
  ELSE IF IsInstance(reply.kind, "PermissionDeniedError")
    THEN Outcome(FALSE, "Permission denied - No access to this model")
  ELSE IF IsInstance(reply.kind, "NotFoundError")
    THEN Outcome(FALSE, "Model not found")
  ELSE IF IsInstance(reply.kind, "RateLimitError")
    THEN Outcome(FALSE, "Rate limit exceeded")
  ELSE Outcome(FALSE, "Unexpected error: " \o reply.detail)

\* test_single_model(client, model), given the provider's reply to the
\* chat.completions.create call: the except clauses in source order.
TestSingleModel(model, reply) ==
  IF reply.kind = "ok" THEN Outcome(TRUE, "Successfully connected")
  ELSE IF IsInstance(reply.kind, "AuthenticationError")
    THEN Outcome(FALSE, "Authentication failed - Invalid API key")
  ELSE IF IsInstance(reply.kind, "PermissionDeniedError")
    THEN Outcome(FALSE, "Permission denied - No access to this model")
  ELSE IF IsInstance(reply.kind, "NotFoundError")
    THEN Outcome(FALSE, "Model not found")
  ELSE IF IsInstance(reply.kind, "RateLimitError")
    THEN Outcome(FALSE, "Rate limit exceeded")
  ELSE IF IsInstance(reply.kind, "APIError")
    THEN Outcome(FALSE, "API error: " \o reply.detail)
  ELSE Outcome(FALSE, "Unexpected error: " \o reply.detail)

\* --------------------------------------------------- get_available_models
\* The condition of the list comprehension: 'gpt' in the lowered id, and a
\* marker in the id as it is.
IsGptModel(id) ==
  /\ Contains(Lower(id), gpt)
  /\ \E v \in 1..Len(variants) : Contains(id, variants[v])

SelectGpt(data) == SelectSeq(data, IsGptModel)

\* What a call returns or raises
Returned(value) == [raised |-> FALSE, kind |-> "none", detail |-> "", value |-> value]

Raised(kind, detail) == [raised |-> TRUE, kind |-> kind, detail |-> detail, value |-> << >>]

\* get_available_models without its except clause
GetAvailableModelsUncaught(reply) ==
  IF reply.kind = "ok" THEN Returned(SortSeq(SelectGpt(reply.data), LexLess))
  ELSE Raised(reply.kind, reply.detail)

\* get_available_models(client), given the reply to client.models.list()
GetAvailableModels(reply) ==
  IF reply.kind = "ok" THEN Returned(SortSeq(SelectGpt(reply.data), LexLess))
  ELSE IF IsInstance(reply.kind, "Exception") THEN Returned(<< >>)
  ELSE Raised(reply.kind, reply.detail)

\* ------------------------------------------------------------ test_api_key
RECURSIVE ListOfSet(_)
\* list(S): the elements of a set in some order
ListOfSet(S) ==
  IF S = {} THEN << >>
  ELSE LET x == CHOOSE y \in S : TRUE IN << x >> \o ListOfSet(S \ {x})

RECURSIVE Dedup(_)
\* the first occurrences of a list, in their order
Dedup(s) ==
  IF s = << >> THEN << >>
  ELSE LET init == Dedup(SubSeq(s, 1, Len(s) - 1))
           last == s[Len(s)]
       IN IF last \in Range(init) THEN init ELSE Append(init, last)

\* models_to_test without the sort: duplicates removed, list order kept
ModelsToTestUnsorted(defaults, available) == Dedup(defaults \o available)

\* models_to_test from the default list alone
ModelsToTestDefaultsOnly(defaults, available) ==
  SortSeq(ListOfSet(Range(defaults)), LexLess)

\* models_to_test = list(set(default_models + available_models)); .sort()
ModelsToTest(defaults, available) ==
  SortSeq(ListOfSet(Range(defaults \o available)), LexLess)

\* results[model] = outcome
Put(d, key, value) ==
  [k \in DOMAIN d \cup {key} |-> IF k = key THEN value ELSE d[k]]

EmptyResults == [k \in {} |-> Outcome(FALSE, "")]

\* The except clauses with the general clause first
ExceptClauseGeneralFirst(kind) ==
  IF IsInstance(kind, "Exception") THEN "general"
  ELSE IF IsInstance(kind, "AuthenticationError") THEN "auth"
  ELSE "propagate"

\* The except clauses with every failure taken for an authentication one
ExceptClauseAllAuth(kind) ==
  IF IsInstance(kind, "Exception") THEN "auth" ELSE "propagate"

\* The except clauses without the general clause
ExceptClauseAuthOnly(kind) ==
  IF IsInstance(kind, "AuthenticationError") THEN "auth" ELSE "propagate"

\* Which except clause of test_api_key takes an exception of class kind
ExceptClause(kind) ==
  IF IsInstance(kind, "AuthenticationError") THEN "auth"
  ELSE IF IsInstance(kind, "Exception") THEN "general"
  ELSE "propagate"

\* The message the taking clause writes
ClauseMessage(clause, detail) ==
  IF clause = "auth" THEN "Invalid API key" ELSE "Client error: " \o detail

\* for model in default_models: results[model] = (False, message)
ShortCircuit(d, defaults, message) ==
  [k \in DOMAIN d \cup Range(defaults) |->
     IF k \in Range(defaults) THEN Outcome(FALSE, message) ELSE d[k]]

\* ------------------------------------------------- button handler, display
\* The new result set merged into the stored one
StoreResultsMerged(stored, returned) ==
  [k \in DOMAIN stored \cup DOMAIN returned |->
     IF k \in DOMAIN returned THEN returned[k] ELSE stored[k]]

\* st.session_state.test_results = test_api_key(api_key)
StoreResults(stored, returned) == returned

\* successes = sum(1 for success, _ in test_results.values() if success)
Successes(d) == Cardinality({k \in DOMAIN d : d[k][1]})

\* The final summary with the partial band starting at two successes
SummaryBandFromTwo(successes, total) ==
  IF successes = total THEN "valid"
  ELSE IF successes > 1 THEN "partial"
  ELSE "failed"

\* The final summary: success / warning / error
SummaryBand(successes, total) ==
  IF successes = total THEN "valid"
  ELSE IF successes > 0 THEN "partial"
  ELSE "failed"

NothingShown == [total |-> 0, successes |-> 0, band |-> "none"]

\* The "Display results" block: nothing for an empty result set
Display(d) ==
  IF DOMAIN d = {} THEN NothingShown
  ELSE [total |-> Cardinality(DOMAIN d),
        successes |-> Successes(d),
        band |-> SummaryBand(Successes(d), Cardinality(DOMAIN d))]

\* ------------------------------------------------------------------ state
VARIABLES
  test_results,      \* st.session_state.test_results
  api_key,           \* the text input
  summary,           \* what the display block last rendered
  pc,                \* where the script is: idle, or a step of test_api_key
  client,            \* test_api_key: whether client was constructed
  available_models,  \* test_api_key: the list get_available_models returned
  models_to_test,    \* test_api_key: the sorted list being probed
  i,                 \* test_api_key: position of the for loop
  results,           \* test_api_key: the dictionary being filled
  propagated,        \* an exception left test_api_key
  construction,      \* how OpenAI(api_key=...) ended in this run
  enumeration,       \* how models.list() ended in this run
  probes,            \* the test_single_model calls made, with their replies
  calls,             \* the outbound calls and pauses of this run, in order
  resolutions,       \* the get_available_models calls made directly
  lastPress,         \* what the latest button press did
  failures           \* failed probes so far

vars ==
  << test_results, api_key, summary, pc, client, available_models,
     models_to_test, i, results, propagated, construction, enumeration,
     probes, calls, resolutions, lastPress, failures >>

session == << test_results, summary >>

locals == << client, available_models, models_to_test, i, results >>

observed == << construction, enumeration, probes, calls >>

Call(op, model) == << op, model >>

ProbeRecord(model, reply) ==
  [model |-> model, reply |-> reply, outcome |-> TestSingleModel(model, reply)]

\* Lines 14-16 and the first script run: nothing stored, nothing shown
Init ==
  /\ test_results = EmptyResults
  /\ api_key = << >>
  /\ summary = NothingShown
  /\ pc = "idle"
  /\ client = FALSE
  /\ available_models = << >>
  /\ models_to_test = << >>
  /\ i = 0
  /\ results = EmptyResults
  /\ propagated = FALSE
  /\ construction = NoReply
  /\ enumeration = "none"
  /\ probes = << >>
  /\ calls = << >>
  /\ resolutions = << >>
  /\ lastPress = "none"
  /\ failures = 0

\* The user fills the text input and presses "Test API Key": the two
\* rejections rerun the display, a well-formed key enters test_api_key.
PressButton ==
  /\ pc = "idle"
  /\ \E key \in Credentials :
       /\ api_key' = key
       /\ IF key = << >> \/ ~StartsWith(key, sk_prefix)
            THEN /\ lastPress' = IF key = << >> THEN "empty" ELSE "no prefix"
                 /\ summary' = Display(test_results)
                 /\ UNCHANGED << test_results, pc, propagated >>
            ELSE /\ lastPress' = "run"
                 /\ pc' = "construct"
                 /\ propagated' = FALSE
                 /\ UNCHANGED session
  /\ UNCHANGED << locals, observed, resolutions, failures >>

\* An exception of class kind reaches the except clauses of test_api_key
Raise(kind, detail) ==
  LET clause == ExceptClause(kind) IN
    /\ pc' = "return"
    /\ IF clause = "propagate"
         THEN propagated' = TRUE /\ results' = results
         ELSE /\ propagated' = propagated
              /\ results' =
                   ShortCircuit(results, default_models,
                                ClauseMessage(clause, detail))

\* client = OpenAI(api_key=api_key)
Construct ==
  /\ pc = "construct"
  /\ \E reply \in ConstructReplies :
       /\ construction' = reply
       /\ calls' = Append(calls, Call("OpenAI", << >>))
       /\ IF reply.kind = "ok"
            THEN /\ client' = TRUE
                 /\ pc' = "enumerate"
                 /\ UNCHANGED << results, propagated >>
            ELSE /\ Raise(reply.kind, reply.detail)
                 /\ UNCHANGED client
  /\ UNCHANGED << session, api_key, available_models, models_to_test, i,
                  enumeration, probes, resolutions, lastPress, failures >>

\* available_models = get_available_models(client); models_to_test
Enumerate ==
  /\ pc = "enumerate"
  /\ \E reply \in ListReplies :
       LET got == GetAvailableModels(reply)
           list == ModelsToTest(default_models, got.value)
       IN /\ enumeration' = IF reply.kind = "ok" THEN "listed" ELSE "failed"
          /\ calls' = Append(calls, Call("models.list", << >>))
          /\ IF got.raised
               THEN /\ Raise(got.kind, got.detail)
                    /\ UNCHANGED << available_models, models_to_test, i >>
               ELSE /\ available_models' = got.value
                    /\ models_to_test' = list
                    /\ i' = IF list = << >> THEN 0 ELSE 1
                    /\ pc' = IF list = << >> THEN "return" ELSE "probe"
                    /\ UNCHANGED << results, propagated >>
  /\ UNCHANGED << session, api_key, client, construction, probes,
                  resolutions, lastPress, failures >>

\* One pass of the for loop:
\* results[model] = test_single_model(client, model); time.sleep(0.1)
Probe ==
  /\ pc = "probe"
  /\ \E reply \in ProbeReplies :
       LET model == models_to_test[i]
           record == ProbeRecord(model, reply)
       IN /\ reply.kind # "ok" => failures < MaxProbeFailures
          /\ failures' = IF reply.kind = "ok" THEN failures ELSE failures + 1
          /\ probes' = Append(probes, record)
          /\ calls' = calls \o << Call("create", model), Call("sleep", << >>) >>
          /\ results' = Put(results, model, record.outcome)
  /\ IF i < Len(models_to_test)
       THEN i' = i + 1 /\ pc' = "probe"
       ELSE i' = i /\ pc' = "return"
  /\ UNCHANGED << session, api_key, client, available_models, models_to_test,
                  propagated, construction, enumeration, resolutions,
                  lastPress >>

\* return results; the handler stores them and the display block runs.
\* The locals of the finished call are gone.
Return ==
  /\ pc = "return"
  /\ IF propagated
       THEN UNCHANGED << test_results, summary >>
       ELSE /\ test_results' = StoreResults(test_results, results)
            /\ summary' = Display(test_results')
  /\ pc' = "idle"
  /\ client' = FALSE
  /\ available_models' = << >>
  /\ models_to_test' = << >>
  /\ i' = 0
  /\ results' = EmptyResults
  /\ construction' = NoReply
  /\ enumeration' = "none"
  /\ probes' = << >>
  /\ calls' = << >>
  /\ UNCHANGED << api_key, propagated, resolutions, lastPress, failures >>

Next == PressButton \/ Construct \/ Enumerate \/ Probe \/ Return

Spec == Init /\ [][Next]_vars

\* -------------------------------------------------------------- harnesses
\* test_single_model called directly, with any reply of the provider
HarnessModels == {gpt_4o, gpt_41}

CallTestSingleModel ==
  /\ Len(probes) < MaxHarnessCalls
  /\ \E model \in HarnessModels, reply \in HarnessReplies :
       probes' = Append(probes, ProbeRecord(model, reply))
  /\ UNCHANGED << session, api_key, pc, locals, propagated, construction,
                  enumeration, calls, resolutions, lastPress, failures >>

SpecProbe == Init /\ [][CallTestSingleModel]_vars

\* get_available_models called directly, with any reply of the provider
CallGetAvailableModels ==
  /\ Len(resolutions) < MaxHarnessCalls
  /\ \E reply \in ListReplies :
       resolutions' =
         Append(resolutions, [reply |-> reply, got |-> GetAvailableModels(reply)])
  /\ UNCHANGED << session, api_key, pc, locals, propagated, observed,
                  lastPress, failures >>

SpecResolver == Init /\ [][CallGetAvailableModels]_vars

\* The display block run on any stored result set of up to MaxSummaryModels
\* entries
SummaryPool == default_models \o << gpt_41, GPT_4_Turbo, whisper_1 >>

SummaryOutcomes ==
  {Outcome(TRUE, "Successfully connected"), Outcome(FALSE, "Model not found")}

SummaryInputs ==
  UNION {[{SummaryPool[k] : k \in 1..n} -> SummaryOutcomes] :
           n \in 0..MaxSummaryModels}

InitSummary ==
  /\ test_results \in SummaryInputs
  /\ api_key = << >>
  /\ summary = NothingShown
  /\ pc = "idle"
  /\ client = FALSE
  /\ available_models = << >>
  /\ models_to_test = << >>
  /\ i = 0
  /\ results = EmptyResults
  /\ propagated = FALSE
  /\ construction = NoReply
  /\ enumeration = "none"
  /\ probes = << >>
  /\ calls = << >>
  /\ resolutions = << >>
  /\ lastPress = "none"
  /\ failures = 0

ShowResults ==
  /\ summary' = Display(test_results)
  /\ lastPress' = "shown"
  /\ UNCHANGED << test_results, api_key, pc, locals, propagated,
                  observed, resolutions, failures >>

SpecSummary == InitSummary /\ [][ShowResults]_vars

\* ----------------------------------------------------------------- claims
AllFailedWith(d, message) == \A m \in DOMAIN d : d[m] = Outcome(FALSE, message)

OnlyConstructorCalled ==
  /\ calls = << Call("OpenAI", << >>) >>
  /\ enumeration = "none"
  /\ probes = << >>

ConstructionFailed == pc = "return" /\ construction.kind \in ExceptionKinds

\* C1: when client construction fails with an authentication-class error,
\* the returned dictionary has exactly the 7 default identifiers, each
\* (False, "Invalid API key"), and neither enumeration nor a probe was made.
C1_AuthFailureShortCircuits ==
  (ConstructionFailed /\ IsInstance(construction.kind, "AuthenticationError"))
    => /\ DOMAIN results = Range(default_models)
       /\ Cardinality(DOMAIN results) = 7
       /\ AllFailedWith(results, "Invalid API key")
       /\ OnlyConstructorCalled

C1_Witness ==
  /\ pc = "return"
  /\ construction.kind = "AuthenticationError"
  /\ gpt_4o \in DOMAIN results

\* The run got past client construction and is at `return results`
ProbedRunReturns == pc = "return" /\ client /\ ~propagated

\* C2: when client construction succeeds, the keys of the returned
\* dictionary are the default list united with the list
\* get_available_models returned, and every identifier submitted to
\* test_single_model was submitted once and has its one entry.
C2_KeysAreUnionOfDefaultAndDynamic ==
  ProbedRunReturns
    => /\ DOMAIN results = Range(default_models) \cup Range(available_models)
       /\ Len(probes) = Cardinality(DOMAIN results)
       /\ \A k \in DOMAIN probes :
            /\ probes[k].model \in DOMAIN results
            /\ results[probes[k].model] = probes[k].outcome
            /\ \A j \in DOMAIN probes : j # k => probes[j].model # probes[k].model

C2_Witness ==
  /\ ProbedRunReturns
  /\ Range(available_models) = {gpt_4o, gpt_41}
  /\ Cardinality(DOMAIN results) = 8
  /\ \E m \in DOMAIN results : ~results[m][1]

\* The rows of the error table, highest precedence first
Precedence ==
  << "AuthenticationError", "PermissionDeniedError", "NotFoundError",
     "RateLimitError", "APIError", "Exception" >>

\* 0 for a completed request, else the first row the failure belongs to
CategoryOf(reply) ==
  IF reply.kind = "ok" THEN 0
  ELSE CHOOSE k \in 1..Len(Precedence) :
         /\ IsInstance(reply.kind, Precedence[k])
         /\ \A j \in 1..(k - 1) : ~IsInstance(reply.kind, Precedence[j])

TableMessage(category, detail) ==
  CASE category = 0 -> "Successfully connected"
    [] category = 1 -> "Authentication failed - Invalid API key"
    [] category = 2 -> "Permission denied - No access to this model"
    [] category = 3 -> "Model not found"
    [] category = 4 -> "Rate limit exceeded"
    [] category = 5 -> "API error: " \o detail
    [] category = 6 -> "Unexpected error: " \o detail

\* C3: test_single_model reports success exactly when the request
\* completes, gives a failure the message of the first table row it belongs
\* to (authentication > permission > not-found > rate-limit > API error >
\* unexpected), and never gives two distinct categories the same message.
C3_FirstMatchingRowDecides ==
  /\ \A k \in DOMAIN probes :
       LET r == probes[k] IN
         /\ r.outcome[1] = (r.reply.kind = "ok")
         /\ r.outcome[2] = TableMessage(CategoryOf(r.reply), r.reply.detail)
  /\ \A j, k \in DOMAIN probes :
       CategoryOf(probes[j].reply) # CategoryOf(probes[k].reply)
         => probes[j].outcome[2] # probes[k].outcome[2]

C3_Witness ==
  /\ Len(probes) = 2
  /\ probes[1].reply.kind = "AuthenticationError"
  /\ probes[1].outcome = Outcome(FALSE, "Authentication failed - Invalid API key")
  /\ probes[2].reply.kind = "APIError"
  /\ probes[2].reply.detail = "Rate limit exceeded"

MaxModels == Len(default_models) + Cardinality(ListedPool)

\* The steps test_api_key has left at most
RunMeasure ==
  CASE pc = "idle" -> 0
    [] pc = "return" -> 1
    [] pc = "probe" -> 2 + Len(models_to_test) - i
    [] pc = "enumerate" -> 3 + MaxModels
    [] pc = "construct" -> 4 + MaxModels

IsResultSet(d) ==
  /\ Range(default_models) \subseteq DOMAIN d
  /\ \A m \in DOMAIN d : Len(d[m]) = 2 /\ d[m][1] \in BOOLEAN

\* C4: whatever fails at construction, enumeration or a probe, no exception
\* leaves test_api_key, every step of a run brings its return nearer, and
\* what it returns is a result set, which is what the caller receives.
C4_NoExceptionLeavesTestApiKey ==
  [][ /\ ~propagated'
      /\ pc # "idle" => RunMeasure' < RunMeasure
      /\ pc' = "return" => IsResultSet(results')
      /\ (pc = "return" /\ pc' = "idle") => test_results' = results ]_vars

C4_Witness ==
  /\ pc = "return"
  /\ ~propagated
  /\ enumeration = "failed"
  /\ \E k \in DOMAIN probes : probes[k].reply.kind = "Exception"
  /\ IsResultSet(results)

ShortCircuitMessages ==
  {"Invalid API key"} \cup
  {"Client error: " \o d : d \in ConstructDetails \cup ProbeDetails}

C6_OtherConstructionFailureShortCircuits ==
  (ConstructionFailed /\ ~IsInstance(construction.kind, "AuthenticationError"))
    => /\ DOMAIN results = Range(default_models)
       /\ AllFailedWith(results, "Client error: " \o construction.detail)
       /\ OnlyConstructorCalled

C6_Witness ==
  /\ pc = "return"
  /\ construction.kind = "RateLimitError"
  /\ results[gpt_4] = Outcome(FALSE, "Client error: proxy refused")

\* C7: the stored result set is empty at first, changes only when a test
\* run completes, and is then exactly what that run returned; a press that
\* starts no run changes nothing.
C7_StoredResultsAreLatestRun ==
  /\ test_results = EmptyResults
  /\ [][ IF pc = "return" /\ pc' = "idle"
           THEN test_results' = results
           ELSE test_results' = test_results ]_vars

\* A failed probe of an earlier run is gone from the stored result set, and
\* a press without the prefix has left the set alone.
C7_Witness ==
  /\ pc = "idle"
  /\ lastPress = "no prefix"
  /\ failures > 0
  /\ DOMAIN test_results = Range(default_models)
  /\ \A m \in DOMAIN test_results : test_results[m][1]

\* `marker in id` in any letter case
HasMarkerAnyCase(id) ==
  \E v \in 1..Len(variants) : Contains(Lower(id), Lower(variants[v]))

\* C8: get_available_models keeps an enumerated identifier exactly when it
\* contains 'gpt-4' or 'gpt-3.5-turbo' in any letter case.
C8_FilterIgnoresCase ==
  \A k \in DOMAIN resolutions :
    LET r == resolutions[k] IN
      r.reply.kind = "ok" =>
        \A id \in Range(r.reply.data) :
          id \in Range(r.got.value) <=> HasMarkerAnyCase(id)

ExpectedDefaultOrder ==
  << gpt_35_turbo, gpt_35_turbo_16k, gpt_4, gpt_4_32k, gpt_4_turbo, gpt_4o,
     gpt_4o_mini >>

ExpectedOrderWith41 ==
  << gpt_35_turbo, gpt_35_turbo_16k, gpt_4, gpt_4_32k, gpt_4_turbo, gpt_41,
     gpt_4o, gpt_4o_mini >>

\* The calls of a run that has finished n passes of the loop over list
ExpectedCalls(list, n) ==
  << Call("OpenAI", << >>), Call("models.list", << >>) >> \o
  [k \in 1..(2 * n) |->
     IF k % 2 = 1 THEN Call("create", list[(k + 1) \div 2])
     ELSE Call("sleep", << >>)]

\* C9: after a successful construction the probes are issued over the
\* resolved list in ascending lexicographic order, one after the other with
\* the pause in between, each identifier once, whatever earlier probes
\* returned; at the return every identifier has been probed.
C9_ProbesInAscendingOrderOnce ==
  (client /\ enumeration # "none" /\ pc \in {"probe", "return"})
    => /\ \A k \in 1..(Len(models_to_test) - 1) :
            LexLess(models_to_test[k], models_to_test[k + 1])
       /\ Range(models_to_test) =
            Range(default_models) \cup Range(available_models)
       /\ Range(available_models) \subseteq {gpt_4o} =>
            models_to_test = ExpectedDefaultOrder
       /\ gpt_41 \in Range(available_models) =>
            models_to_test = ExpectedOrderWith41
       /\ \E n \in 0..Len(models_to_test) :
            /\ calls = ExpectedCalls(models_to_test, n)
            /\ Len(probes) = n
            /\ \A k \in 1..n : probes[k].model = models_to_test[k]
       /\ pc = "return" =>
            calls = ExpectedCalls(models_to_test, Len(models_to_test))

C9_Witness ==
  /\ pc = "return"
  /\ client
  /\ Len(probes) = 8
  /\ probes[3].reply.kind = "RateLimitError"
  /\ probes[8].reply.kind = "ok"

\* C10: for a non-empty result set the summary shows exactly one band:
\* fully valid iff successes = total, partially valid iff
\* 0 < successes < total, failed iff successes = 0.
C10_SummaryBandsPartition ==
  LET total == Cardinality(DOMAIN test_results)
      successes == Cardinality({m \in DOMAIN test_results : test_results[m][1]})
  IN (lastPress = "shown" /\ total > 0)
       => /\ summary.total = total
          /\ summary.successes = successes
          /\ summary.band \in {"valid", "partial", "failed"}
          /\ summary.band = "valid" <=> successes = total
          /\ summary.band = "partial" <=> (0 < successes /\ successes < total)
          /\ summary.band = "failed" <=> successes = 0

C10_Witness ==
  /\ lastPress = "shown"
  /\ summary.band = "partial"
  /\ summary.successes = 1
  /\ summary.total = 3

====
